---------------------------- MODULE Spec2Model ----------------------------
(***************************************************************************)
(* QuantumChat: the session / message lifecycle of routes.py and models.py *)
(* and the XOR / one-time-pad cipher pair of encryption.py.                *)
(*                                                                         *)
(* Strings are sequences of Unicode code points, byte strings sequences of *)
(* numbers 0..255.  The clock is the reading of datetime.utcnow() in       *)
(* seconds; every comparison of the code is kept as written (strict >),    *)
(* so two requests with the same reading are "at the same instant".        *)
(***************************************************************************)
EXTENDS Integers, Sequences, FiniteSets, TLC

VARIABLES
    now,        \* datetime.utcnow()
    sessions,   \* table chat_session: session_code -> row
    messages,   \* table message: sequence of rows, id = index
    events,     \* table security_event: sequence of rows, id = index
    resp,       \* the response of the last request served at this instant
    call        \* a direct call of one function, or the requests in flight

vars == <<now, sessions, messages, events, resp, call>>

-----------------------------------------------------------------------------
(* Text helpers                                                            *)

\* None, where a string or a byte string is expected (no code point is negative)
None == <<-1>>

\* None, where a datetime is expected
NoTime == -1

Max(a, b) == IF a >= b THEN a ELSE b

\* '0' and '1'
Zero == 48
One == 49

IsBinary(key) == \A i \in 1..Len(key) : key[i] \in {Zero, One}

\* "[Message Self-Destructed]"
DestroyedPlain ==
    <<91, 77, 101, 115, 115, 97, 103, 101, 32, 83, 101, 108, 102, 45, 68, 101,
      115, 116, 114, 117, 99, 116, 101, 100, 93>>

\* "[Encrypted Data Destroyed]"
DestroyedCipher ==
    <<91, 69, 110, 99, 114, 121, 112, 116, 101, 100, 32, 68, 97, 116, 97, 32,
      68, 101, 115, 116, 114, 111, 121, 101, 100, 93>>

\* a ^ b on non-negative integers
RECURSIVE BitXor(_, _)
BitXor(a, b) ==
    IF a = 0 THEN b
    ELSE IF b = 0 THEN a
    ELSE (((a % 2) + (b % 2)) % 2) + 2 * BitXor(a \div 2, b \div 2)

\* int(bits, 2) of a string of '0' / '1'
RECURSIVE BinValue(_)
BinValue(bits) ==
    IF Len(bits) = 0 THEN 0
    ELSE 2 * BinValue(SubSeq(bits, 1, Len(bits) - 1)) + (bits[Len(bits)] - Zero)

\* bytes(int(key[i:i+8], 2) for i in range(0, len(key), 8))
RECURSIVE KeyBytes(_)
KeyBytes(key) ==
    IF Len(key) = 0 THEN <<>>
    ELSE IF Len(key) <= 8 THEN <<BinValue(key)>>
    ELSE <<BinValue(SubSeq(key, 1, 8))>> \o KeyBytes(SubSeq(key, 9, Len(key)))

\* str.encode('utf-8'): lone surrogates raise UnicodeEncodeError
IsSurrogate(c) == c >= 55296 /\ c <= 57343

Utf8Encodable(s) == \A i \in 1..Len(s) : ~IsSurrogate(s[i])

Utf8Char(c) ==
    IF c < 128 THEN <<c>>
    ELSE IF c < 2048 THEN <<192 + (c \div 64), 128 + (c % 64)>>
    ELSE IF c < 65536
        THEN <<224 + (c \div 4096), 128 + ((c \div 64) % 64), 128 + (c % 64)>>
    ELSE <<240 + (c \div 262144), 128 + ((c \div 4096) % 64),
           128 + ((c \div 64) % 64), 128 + (c % 64)>>

RECURSIVE Utf8Encode(_)
Utf8Encode(s) ==
    IF Len(s) = 0 THEN <<>> ELSE Utf8Char(Head(s)) \o Utf8Encode(Tail(s))

\* bytes.decode('utf-8'), strict: the result, or None when it raises
IsCont(b) == b >= 128 /\ b <= 191

RECURSIVE Utf8DecodeFrom(_, _, _)
Utf8DecodeFrom(b, i, acc) ==
    IF i > Len(b) THEN acc
    ELSE LET b0 == b[i]
             left == Len(b) - i
         IN  IF b0 < 128 THEN Utf8DecodeFrom(b, i + 1, Append(acc, b0))
             ELSE IF b0 >= 194 /\ b0 <= 223
                THEN IF left >= 1 /\ IsCont(b[i + 1])
                     THEN Utf8DecodeFrom(b, i + 2,
                              Append(acc, (b0 - 192) * 64 + (b[i + 1] - 128)))
                     ELSE None
             ELSE IF b0 >= 224 /\ b0 <= 239
                THEN IF /\ left >= 2
                        /\ IsCont(b[i + 1])
                        /\ IsCont(b[i + 2])
                        /\ (b0 = 224 => b[i + 1] >= 160)
                        /\ (b0 = 237 => b[i + 1] <= 159)
                     THEN Utf8DecodeFrom(b, i + 3,
                              Append(acc, (b0 - 224) * 4096
                                          + (b[i + 1] - 128) * 64
                                          + (b[i + 2] - 128)))
                     ELSE None
             ELSE IF b0 >= 240 /\ b0 <= 244
                THEN IF /\ left >= 3
                        /\ IsCont(b[i + 1])
                        /\ IsCont(b[i + 2])
                        /\ IsCont(b[i + 3])
                        /\ (b0 = 240 => b[i + 1] >= 144)
                        /\ (b0 = 244 => b[i + 1] <= 143)
                     THEN Utf8DecodeFrom(b, i + 4,
                              Append(acc, (b0 - 240) * 262144
                                          + (b[i + 1] - 128) * 4096
                                          + (b[i + 2] - 128) * 64
                                          + (b[i + 3] - 128)))
                     ELSE None
             ELSE None

Utf8Decode(b) == Utf8DecodeFrom(b, 1, <<>>)

\* The base64 alphabet: value -> character, character -> value (64: none)
B64Pad == 61

B64Char(v) ==
    IF v < 26 THEN 65 + v
    ELSE IF v < 52 THEN 97 + (v - 26)
    ELSE IF v < 62 THEN 48 + (v - 52)
    ELSE IF v = 62 THEN 43
    ELSE 47

B64Val(c) ==
    IF c >= 65 /\ c <= 90 THEN c - 65
    ELSE IF c >= 97 /\ c <= 122 THEN c - 97 + 26
    ELSE IF c >= 48 /\ c <= 57 THEN c - 48 + 52
    ELSE IF c = 43 THEN 62
    ELSE IF c = 47 THEN 63
    ELSE 64

\* base64.b64encode(b).decode('ascii')
RECURSIVE B64Encode(_)
B64Encode(b) ==
    IF Len(b) = 0 THEN <<>>
    ELSE IF Len(b) = 1
        THEN <<B64Char(b[1] \div 4), B64Char((b[1] % 4) * 16), B64Pad, B64Pad>>
    ELSE IF Len(b) = 2
        THEN <<B64Char(b[1] \div 4),
               B64Char(((b[1] % 4) * 16) + (b[2] \div 16)),
               B64Char((b[2] % 16) * 4), B64Pad>>
    ELSE <<B64Char(b[1] \div 4),
           B64Char(((b[1] % 4) * 16) + (b[2] \div 16)),
           B64Char(((b[2] % 16) * 4) + (b[3] \div 64)),
           B64Char(b[3] % 64)>> \o B64Encode(SubSeq(b, 4, Len(b)))

\* binascii.a2b_base64(s), not strict: characters outside the alphabet are
\* skipped, a completed pad ends the input, a dangling quad raises (None)
RECURSIVE B64DecodeFrom(_, _, _, _, _, _)
B64DecodeFrom(s, i, quad, left, pads, out) ==
    IF i > Len(s) THEN (IF quad # 0 THEN None ELSE out)
    ELSE IF s[i] = B64Pad
        THEN IF quad >= 2 /\ quad + pads + 1 >= 4 THEN out
             ELSE B64DecodeFrom(s, i + 1, quad, left,
                                IF quad >= 2 THEN pads + 1 ELSE pads, out)
    ELSE LET v == B64Val(s[i])
         IN  IF v >= 64 THEN B64DecodeFrom(s, i + 1, quad, left, pads, out)
             ELSE IF quad = 0 THEN B64DecodeFrom(s, i + 1, 1, v, 0, out)
             ELSE IF quad = 1
                THEN B64DecodeFrom(s, i + 1, 2, v % 16, 0,
                                   Append(out, (left * 4) + (v \div 16)))
             ELSE IF quad = 2
                THEN B64DecodeFrom(s, i + 1, 3, v % 4, 0,
                                   Append(out, (left * 16) + (v \div 4)))
             ELSE B64DecodeFrom(s, i + 1, 0, 0, 0, Append(out, (left * 64) + v))

\* base64.b64decode(s.encode('ascii')): a character above 127 raises
B64Decode(s) ==
    IF \E i \in 1..Len(s) : s[i] > 127 THEN None
    ELSE B64DecodeFrom(s, 1, 0, 0, 0, <<>>)

\* the loop of xor_encrypt / xor_decrypt: byte ^ key_bytes[i % len(key_bytes)]
XorBytes(data, kb) ==
    [i \in 1..Len(data) |-> BitXor(data[i], kb[((i - 1) % Len(kb)) + 1])]

-----------------------------------------------------------------------------
(* encryption.py: QuantumEncryption                                        *)

\* `if not key: raise ValueError`, and int(key[i:i+8], 2) raising on a
\* character that is no binary digit
XorKeyFails(key) == key = None \/ Len(key) = 0 \/ ~IsBinary(key)

xor_encrypt(message, key) ==
    IF XorKeyFails(key) \/ ~Utf8Encodable(message) THEN message
    ELSE B64Encode(XorBytes(Utf8Encode(message), KeyBytes(key)))

\* xor_decrypt with every byte XORed with the first key byte only
xor_decrypt_first_key_byte(ciphertext, key) ==
    IF XorKeyFails(key) THEN ciphertext
    ELSE LET encrypted_bytes == B64Decode(ciphertext)
         IN  IF encrypted_bytes = None THEN ciphertext
             ELSE LET text == Utf8Decode(XorBytes(encrypted_bytes,
                                                  <<KeyBytes(key)[1]>>))
                  IN  IF text = None THEN ciphertext ELSE text

xor_decrypt(ciphertext, key) ==
    IF XorKeyFails(key) THEN ciphertext
    ELSE LET encrypted_bytes == B64Decode(ciphertext)
         IN  IF encrypted_bytes = None THEN ciphertext
             ELSE LET text == Utf8Decode(XorBytes(encrypted_bytes, KeyBytes(key)))
                  IN  IF text = None THEN ciphertext ELSE text

\* int(extended_key[i % len(key)]) of the characters the loop reads: a key
\* character that is no decimal digit raises ValueError
IsDigit(c) == c >= 48 /\ c <= 57

OtpKeyFails(text, key) ==
    \/ key = None
    \/ Len(key) = 0
    \/ \E i \in 1..Len(text) : ~IsDigit(key[((i - 1) % Len(key)) + 1])

OtpKeyBit(key, i) == key[((i - 1) % Len(key)) + 1] - Zero

one_time_pad_encrypt(message, key) ==
    IF OtpKeyFails(message, key) THEN message
    ELSE [i \in 1..Len(message) |-> (message[i] + OtpKeyBit(key, i)) % 256]

one_time_pad_decrypt(ciphertext, key) ==
    IF OtpKeyFails(ciphertext, key) THEN ciphertext
    ELSE [i \in 1..Len(ciphertext) |-> (ciphertext[i] - OtpKeyBit(key, i)) % 256]

-----------------------------------------------------------------------------
(* Bounds and inputs of the requests                                       *)

\* rows of the message table
MaxMsgs == 1

\* key generations per session (key_refreshes)
MaxKeys == 1

\* attack simulations per session (security_events_count)
MaxAttacks == 1

\* readings of the clock the model visits
TimePoints == {0, 1, 301}

\* session codes (generate_session_code never returns a code in use)
Codes == {"A"}

Senders == {"alice"}

\* the `bits` a generate_key request asks for
BitsChoices == {0, 16}

\* keys generate_quantum_key may return (a sample of the binary strings)
KeyPool ==
    { <<>>,
      <<Zero, Zero, Zero, Zero, Zero, Zero, Zero, One>>,
      <<Zero, One, Zero, Zero, Zero, Zero, Zero, One,
        Zero, Zero, One, Zero, Zero, Zero, One, One>> }

\* "", "HI"
Empty == << >>
Hi == <<72, 73>>

\* send requests: (message, encryption_method, is_self_destruct,
\* self_destruct_timer)
SendChoices ==
    { <<Hi, "xor", FALSE, 30>>,
      <<Empty, "xor", FALSE, 30>>,
      <<Hi, "otp", TRUE, 0>>,
      <<Hi, "xor", TRUE, 300>>,
      <<Hi, "aes", FALSE, 30>> }

ExportFormats == {"decrypted", "encrypted"}

-----------------------------------------------------------------------------
(* models.py                                                               *)

\* timedelta(minutes=5), in seconds
KeyWindow == 300

\* ChatSession(session_code=...) with the column defaults
NewSession ==
    [ quantum_key |-> None,
      key_generated_at |-> NoTime,
      encryption_method |-> "xor",
      is_active |-> TRUE,
      messages_count |-> 0,
      total_messages |-> 0,
      key_refreshes |-> 0,
      security_events_count |-> 0 ]

\* Message(...) with the column defaults, inserted at `now`
NewMessage(code, sender, message, encrypted_message, is_self_destruct, timer) ==
    [ session_id |-> code,
      sender |-> sender,
      original_message |-> message,
      encrypted_message |-> encrypted_message,
      is_self_destruct |-> is_self_destruct,
      self_destruct_timer |-> timer,
      created_at |-> now,
      read_at |-> NoTime,
      is_destroyed |-> FALSE ]

\* SecurityEvent(session_id, event_type, description); the description is
\* kept as the values the f-string interpolates
NewEvent_without_type(code, event_type, description) ==
    [ session_id |-> code, event_type |-> "", description |-> description ]

NewEvent(code, event_type, description) ==
    [ session_id |-> code, event_type |-> event_type, description |-> description ]

\* is_key_expired with >= in the place of >
is_key_expired_at_window(s) ==
    IF s.key_generated_at = NoTime THEN TRUE
    ELSE now >= s.key_generated_at + KeyWindow

\* is_key_expired without the comparison against the validity window
is_key_expired_no_window(s) == s.key_generated_at = NoTime

is_key_expired(s) ==
    IF s.key_generated_at = NoTime THEN TRUE
    ELSE now > s.key_generated_at + KeyWindow

\* key_time_remaining without the expiry test and without max(0, ...)
key_time_remaining_unclamped(s) ==
    IF s.key_generated_at = NoTime THEN 0
    ELSE (s.key_generated_at + KeyWindow) - now

\* int(remaining.total_seconds()) of a whole number of seconds is that number
key_time_remaining(s) ==
    IF s.key_generated_at = NoTime \/ is_key_expired(s) THEN 0
    ELSE Max(0, (s.key_generated_at + KeyWindow) - now)

\* should_self_destruct with the timer left out of the expiry test
should_self_destruct_without_timer(m) ==
    IF ~m.is_self_destruct \/ m.is_destroyed THEN FALSE
    ELSE IF now > m.created_at THEN TRUE
    ELSE IF m.self_destruct_timer = 0 /\ m.read_at # NoTime THEN TRUE
    ELSE FALSE

should_self_destruct(m) ==
    IF ~m.is_self_destruct \/ m.is_destroyed THEN FALSE
    ELSE IF now > m.created_at + m.self_destruct_timer THEN TRUE
    ELSE IF m.self_destruct_timer = 0 /\ m.read_at # NoTime THEN TRUE
    ELSE FALSE

\* `not chat_session.quantum_key`: None or ''
KeyMissing(s) == s.quantum_key = None \/ Len(s.quantum_key) = 0

-----------------------------------------------------------------------------
(* quantum_engine.py                                                       *)

\* generate_quantum_key(bits): one character per i in range(bits)
generate_quantum_key(bits) == { k \in KeyPool : Len(k) = Max(bits, 0) }

-----------------------------------------------------------------------------
(* routes.py                                                               *)

\* ids in ascending order: ORDER BY created_at (created_at grows with the id)
RECURSIVE Ascending(_)
Ascending(ids) ==
    IF ids = {} THEN <<>>
    ELSE LET lo == CHOOSE i \in ids : \A j \in ids : i <= j
         IN  <<lo>> \o Ascending(ids \ {lo})

Reverse(q) == [i \in 1..Len(q) |-> q[Len(q) + 1 - i]]

\* .limit(n)
Limit(q, n) == IF Len(q) <= n THEN q ELSE SubSeq(q, 1, n)

\* Message.query.filter_by(session_id=..., is_destroyed=False)
\* the query without the filter on session_id
LiveIds_of_every_session(code) ==
    { i \in 1..Len(messages) : ~messages[i].is_destroyed }

LiveIds(code) ==
    { i \in 1..Len(messages) :
        messages[i].session_id = code /\ ~messages[i].is_destroyed }

\* the response of a request; `cipher` lists the calls of the Cipher the
\* request made, each with the age of the session key at the call
Response(op, code, status, error, body, cipher) ==
    [ op |-> op, code |-> code, status |-> status, error |-> error,
      body |-> body, cipher |-> cipher ]

NoResponse == Response("", "", 0, "", <<>>, {})

\* the branch `if not chat_session` falling through to the success reply
NotFound_as_success(op, code) == Response(op, code, 200, "", <<>>, {})

NotFound(op, code) == Response(op, code, 404, "Session not found", <<>>, {})

\* one message of a response: the texts it carries (None: not carried)
Entry(id, message, encrypted_message) ==
    [ id |-> id, message |-> message, encrypted_message |-> encrypted_message ]

CipherCall(fn, s) == [ fn |-> fn, key_age |-> now - s.key_generated_at ]

\* the self-destruct branch without the assignment to encrypted_message
Destroyed_keeps_ciphertext(m) ==
    [ m EXCEPT !.is_destroyed = TRUE, !.original_message = DestroyedPlain ]

\* the three assignments of the self-destruct branch
Destroyed(m) ==
    [ m EXCEPT !.is_destroyed = TRUE,
               !.original_message = DestroyedPlain,
               !.encrypted_message = DestroyedCipher ]

\* the clock advances between two requests
Tick ==
    /\ resp = NoResponse
    /\ \E t \in TimePoints : t > now /\ now' = t
    /\ UNCHANGED <<sessions, messages, events, resp, call>>

\* the response is returned to the client: requests are served one at a time
Deliver ==
    /\ resp # NoResponse
    /\ resp' = NoResponse
    /\ UNCHANGED <<now, sessions, messages, events, call>>

create_session(code) ==
    /\ code \notin DOMAIN sessions
    /\ sessions' = [c \in DOMAIN sessions \cup {code} |->
                        IF c = code THEN NewSession ELSE sessions[c]]
    /\ resp' = Response("create_session", code, 302, "", <<>>, {})
    /\ UNCHANGED <<now, messages, events, call>>

\* api_generate_key that assigns the new key only when the session has none
api_generate_key_keeps_key(code, bits, quantum_key) ==
    /\ IF code \notin DOMAIN sessions
       THEN /\ resp' = NotFound("generate_key", code)
            /\ UNCHANGED <<sessions, events>>
       ELSE /\ quantum_key \in generate_quantum_key(bits)
            /\ sessions' = [sessions EXCEPT
                    ![code].quantum_key =
                        IF KeyMissing(sessions[code]) THEN quantum_key ELSE @,
                    ![code].key_generated_at = now,
                    ![code].key_refreshes = @ + 1]
            /\ events' = Append(events, NewEvent(code, "key_generation", <<bits>>))
            /\ resp' = Response("generate_key", code, 200, "",
                                <<Entry(0, None, quantum_key)>>, {})
    /\ UNCHANGED <<now, messages, call>>

api_generate_key(code, bits, quantum_key) ==
    /\ IF code \notin DOMAIN sessions
       THEN /\ resp' = NotFound("generate_key", code)
            /\ UNCHANGED <<sessions, events>>
       ELSE /\ quantum_key \in generate_quantum_key(bits)
            /\ sessions' = [sessions EXCEPT
                    ![code].quantum_key = quantum_key,
                    ![code].key_generated_at = now,
                    ![code].key_refreshes = @ + 1]
            /\ events' = Append(events, NewEvent(code, "key_generation", <<bits>>))
            /\ resp' = Response("generate_key", code, 200, "",
                                <<Entry(0, None, quantum_key)>>, {})
    /\ UNCHANGED <<now, messages, call>>

\* the Cipher call of api_send_message
Encrypt(method, message, key) ==
    IF method = "xor" THEN xor_encrypt(message, key)
    ELSE one_time_pad_encrypt(message, key)

EncryptFn(method) == IF method = "xor" THEN "xor_encrypt" ELSE "one_time_pad_encrypt"

api_send_message(code, sender, message, method, is_self_destruct, timer) ==
    /\ IF code \notin DOMAIN sessions
       THEN /\ resp' = NotFound("send_message", code)
            /\ UNCHANGED <<sessions, messages, events>>
       ELSE IF KeyMissing(sessions[code])
       THEN /\ resp' = Response("send_message", code, 400,
                                "No quantum key generated", <<>>, {})
            /\ UNCHANGED <<sessions, messages, events>>
       ELSE IF is_key_expired(sessions[code])
       THEN /\ resp' = Response("send_message", code, 400,
                                "Quantum key expired", <<>>, {})
            /\ UNCHANGED <<sessions, messages, events>>
       ELSE IF method \notin {"xor", "otp"}
       THEN /\ resp' = Response("send_message", code, 400,
                                "Invalid encryption method", <<>>, {})
            /\ UNCHANGED <<sessions, messages, events>>
       ELSE LET encrypted_message ==
                    Encrypt(method, message, sessions[code].quantum_key)
            IN  /\ messages' = Append(messages,
                        NewMessage(code, sender, message, encrypted_message,
                                   is_self_destruct, timer))
                /\ sessions' = [sessions EXCEPT
                        ![code].total_messages = @ + 1,
                        ![code].messages_count = @ + 1]
                /\ events' = Append(events, NewEvent(code, "message_sent", <<sender, method>>))
                /\ resp' = Response("send_message", code, 200, "",
                        <<Entry(Len(messages) + 1, None, encrypted_message)>>,
                        {CipherCall(EncryptFn(method), sessions[code])})
    /\ UNCHANGED <<now, call>>

\* the loop of api_get_messages over the rows it queried
ReadOrDestroy(m) ==
    IF should_self_destruct(m) THEN Destroyed(m)
    ELSE IF m.read_at = NoTime THEN [m EXCEPT !.read_at = now]
    ELSE m

\* the Cipher call of api_get_messages with the two schemes exchanged
Decrypt_schemes_exchanged(s, m) ==
    IF KeyMissing(s) THEN m.original_message
    ELSE IF s.encryption_method = "xor"
        THEN one_time_pad_decrypt(m.encrypted_message, s.quantum_key)
    ELSE IF s.encryption_method = "otp"
        THEN xor_decrypt(m.encrypted_message, s.quantum_key)
    ELSE m.original_message

\* the Cipher call of api_get_messages: the session's method tag selects it
Decrypt(s, m) ==
    IF KeyMissing(s) THEN m.original_message
    ELSE IF s.encryption_method = "xor"
        THEN xor_decrypt(m.encrypted_message, s.quantum_key)
    ELSE IF s.encryption_method = "otp"
        THEN one_time_pad_decrypt(m.encrypted_message, s.quantum_key)
    ELSE m.original_message

DecryptCalls(s) ==
    IF KeyMissing(s) THEN {}
    ELSE IF s.encryption_method = "xor" THEN {CipherCall("xor_decrypt", s)}
    ELSE IF s.encryption_method = "otp"
        THEN {CipherCall("one_time_pad_decrypt", s)}
    ELSE {}

api_get_messages(code, last_message_id) ==
    /\ IF code \notin DOMAIN sessions
       THEN /\ resp' = NotFound("get_messages", code)
            /\ UNCHANGED messages
       ELSE LET queried == { i \in LiveIds(code) :
                               last_message_id > 0 => i > last_message_id }
                after == [i \in 1..Len(messages) |->
                            IF i \in queried THEN ReadOrDestroy(messages[i])
                            ELSE messages[i]]
                listed == Ascending({ i \in queried : ~after[i].is_destroyed })
            IN  /\ messages' = after
                /\ resp' = Response("get_messages", code, 200, "",
                        [k \in 1..Len(listed) |->
                            Entry(listed[k],
                                  Decrypt(sessions[code], after[listed[k]]),
                                  after[listed[k]].encrypted_message)],
                        IF Len(listed) = 0 THEN {}
                        ELSE DecryptCalls(sessions[code]))
    /\ UNCHANGED <<now, sessions, events, call>>

\* the chat page: the rows it queried are handed to the template as they
\* are after the self-destruct loop
chat(code) ==
    /\ IF code \notin DOMAIN sessions \/ ~sessions[code].is_active
       THEN /\ resp' = Response("chat", code, 302,
                                "Session not found or inactive", <<>>, {})
            /\ UNCHANGED messages
       ELSE LET queried == LiveIds(code)
                after == [i \in 1..Len(messages) |->
                            IF i \in queried /\ should_self_destruct(messages[i])
                            THEN Destroyed(messages[i])
                            ELSE messages[i]]
                listed == Ascending(queried)
            IN  /\ messages' = after
                /\ resp' = Response("chat", code, 200, "",
                        [k \in 1..Len(listed) |->
                            Entry(listed[k],
                                  after[listed[k]].original_message,
                                  after[listed[k]].encrypted_message)],
                        {})
    /\ UNCHANGED <<now, sessions, events, call>>

\* the rows the attack simulation reads: the 5 most recent live ones
api_simulate_hacker_attack(code) ==
    /\ IF code \notin DOMAIN sessions
       THEN /\ resp' = NotFound("simulate_hacker_attack", code)
            /\ UNCHANGED <<sessions, events>>
       ELSE LET attacked == Limit(Reverse(Ascending(LiveIds(code))), 5)
            IN  IF Len(attacked) = 0
                THEN /\ resp' = Response("simulate_hacker_attack", code, 400,
                                         "No messages to attack", <<>>, {})
                     /\ UNCHANGED <<sessions, events>>
                ELSE /\ events' = Append(events,
                                         NewEvent(code, "hacker_simulation", << >>))
                     /\ sessions' = [sessions EXCEPT
                             ![code].security_events_count = @ + 1]
                     /\ resp' = Response("simulate_hacker_attack", code, 200, "",
                             [k \in 1..Len(attacked) |->
                                 Entry(attacked[k], None,
                                       messages[attacked[k]].encrypted_message)],
                             {})
    /\ UNCHANGED <<now, messages, call>>

api_export_chat(code, export_format) ==
    /\ IF code \notin DOMAIN sessions
       THEN resp' = NotFound("export_chat", code)
       ELSE LET exported == Ascending(LiveIds(code))
            IN  resp' = Response("export_chat", code, 200, "",
                    [k \in 1..Len(exported) |->
                        IF export_format = "encrypted"
                        THEN Entry(exported[k], None,
                                   messages[exported[k]].encrypted_message)
                        ELSE Entry(exported[k],
                                   messages[exported[k]].original_message, None)],
                    {})
    /\ UNCHANGED <<now, sessions, messages, events, call>>

\* conversation_history, as handed to monmad_ai.generate_smart_reply
api_ai_smart_replies(code) ==
    /\ IF code \notin DOMAIN sessions
       THEN resp' = NotFound("ai_smart_replies", code)
       ELSE LET recent == Reverse(Limit(Reverse(Ascending(LiveIds(code))), 5))
            IN  resp' = Response("ai_smart_replies", code, 200, "",
                    [k \in 1..Len(recent) |->
                        Entry(recent[k],
                              messages[recent[k]].original_message, None)],
                    {})
    /\ UNCHANGED <<now, sessions, messages, events, call>>

\* message_data, as handed to monmad_ai.generate_conversation_insights
api_ai_conversation_insights(code) ==
    /\ IF code \notin DOMAIN sessions
       THEN resp' = NotFound("ai_conversation_insights", code)
       ELSE LET analysed == Ascending(LiveIds(code))
            IN  resp' = Response("ai_conversation_insights", code, 200, "",
                    [k \in 1..Len(analysed) |->
                        Entry(analysed[k],
                              messages[analysed[k]].original_message, None)],
                    {})
    /\ UNCHANGED <<now, sessions, messages, events, call>>

\* the analytics page shows counts of the rows, never their texts
analytics(code) ==
    /\ IF code \notin DOMAIN sessions
       THEN resp' = Response("analytics", code, 302, "Session not found", <<>>, {})
       ELSE resp' = Response("analytics", code, 200, "", <<>>, {})
    /\ UNCHANGED <<now, sessions, messages, events, call>>

-----------------------------------------------------------------------------
(* The application: an empty database, then one request at a time          *)

\* no direct call of the cipher in progress
CipherCallRecord(fn, text, key, result, origin) ==
    [ fn |-> fn, text |-> text, key |-> key, result |-> result, origin |-> origin ]

NoCall == CipherCallRecord("", None, None, None, None)

Init ==
    /\ now = 0
    /\ sessions = << >>
    /\ messages = << >>
    /\ events = << >>
    /\ resp = NoResponse
    /\ call = NoCall

\* the requests the model serves: a request that would grow a table or a
\* counter past its bound is not sent
KeysLeft(code) == code \in DOMAIN sessions => sessions[code].key_refreshes < MaxKeys

AttacksLeft(code) ==
    code \in DOMAIN sessions => sessions[code].security_events_count < MaxAttacks

\* one request of each kind, served when the previous response is out
Idle == resp = NoResponse

CreateSessionRequest == Idle /\ \E code \in Codes : create_session(code)

GenerateKeyRequest ==
    /\ Idle
    /\ \E code \in Codes, bits \in BitsChoices, key \in KeyPool :
            KeysLeft(code) /\ api_generate_key(code, bits, key)

SendMessageRequest ==
    /\ Idle
    /\ Len(messages) < MaxMsgs
    /\ \E code \in Codes, sender \in Senders, r \in SendChoices :
            api_send_message(code, sender, r[1], r[2], r[3], r[4])

GetMessagesRequest ==
    Idle /\ \E code \in Codes, last \in 0..MaxMsgs : api_get_messages(code, last)

ChatRequest == Idle /\ \E code \in Codes : chat(code)

SimulateHackerAttackRequest ==
    Idle /\ \E code \in Codes : AttacksLeft(code) /\ api_simulate_hacker_attack(code)

ExportChatRequest ==
    Idle /\ \E code \in Codes, f \in ExportFormats : api_export_chat(code, f)

AiSmartRepliesRequest == Idle /\ \E code \in Codes : api_ai_smart_replies(code)

AiConversationInsightsRequest ==
    Idle /\ \E code \in Codes : api_ai_conversation_insights(code)

AnalyticsRequest == Idle /\ \E code \in Codes : analytics(code)

Next ==
    \/ Tick
    \/ Deliver
    \/ CreateSessionRequest
    \/ GenerateKeyRequest
    \/ SendMessageRequest
    \/ GetMessagesRequest
    \/ ChatRequest
    \/ SimulateHackerAttackRequest
    \/ ExportChatRequest
    \/ AiSmartRepliesRequest
    \/ AiConversationInsightsRequest
    \/ AnalyticsRequest

Spec == Init /\ [][Next]_vars

-----------------------------------------------------------------------------
(* The self-destruct timer: a session around the 30th second of a message  *)

\* readings of the clock around a timer of 30 seconds
TimerPoints == {0, 29, 30, 31}

\* send requests with the default timer of 30 seconds and with timer 0
TimerSendChoices ==
    { <<Hi, "xor", TRUE, 30>>,
      <<Hi, "xor", TRUE, 0>>,
      <<Hi, "xor", FALSE, 30>> }

TimerTick ==
    /\ resp = NoResponse
    /\ \E t \in TimerPoints : t > now /\ now' = t
    /\ UNCHANGED <<sessions, messages, events, resp, call>>

TimerSendMessageRequest ==
    /\ Idle
    /\ Len(messages) < MaxMsgs
    /\ \E code \in Codes, sender \in Senders, r \in TimerSendChoices :
            api_send_message(code, sender, r[1], r[2], r[3], r[4])

TimerNext ==
    \/ TimerTick
    \/ Deliver
    \/ CreateSessionRequest
    \/ GenerateKeyRequest
    \/ TimerSendMessageRequest
    \/ GetMessagesRequest
    \/ ChatRequest

SpecTimer == Init /\ [][TimerNext]_vars

-----------------------------------------------------------------------------
(* The key window: is_key_expired and key_time_remaining of a session,     *)
(* called directly around the 300th second of its key                      *)

\* readings of the clock around a validity window of 5 minutes
WindowPoints == {0, 1, 299, 300, 301}

\* a reading that was never taken
NoReading == -1

\* a call of one of the two methods on the row of session `code`: the row's
\* key columns and the clock as the call saw them, what it returned, and what
\* the previous call returned when that was the same method on the same key
LifecycleCall(fn, code, result) ==
    [ fn |-> fn,
      code |-> code,
      quantum_key |-> sessions[code].quantum_key,
      key_generated_at |-> sessions[code].key_generated_at,
      key_refreshes |-> sessions[code].key_refreshes,
      at |-> now,
      result |-> result,
      prev |-> IF /\ call.fn = fn
                  /\ call.code = code
                  /\ call.key_refreshes = sessions[code].key_refreshes
               THEN call.result
               ELSE NoReading ]

WindowTick ==
    /\ resp = NoResponse
    /\ \E t \in WindowPoints : t > now /\ now' = t
    /\ UNCHANGED <<sessions, messages, events, resp, call>>

CallIsKeyExpired ==
    /\ \E code \in DOMAIN sessions :
            call' = LifecycleCall("is_key_expired", code,
                                  is_key_expired(sessions[code]))
    /\ UNCHANGED <<now, sessions, messages, events, resp>>

CallKeyTimeRemaining ==
    /\ \E code \in DOMAIN sessions :
            call' = LifecycleCall("key_time_remaining", code,
                                  key_time_remaining(sessions[code]))
    /\ UNCHANGED <<now, sessions, messages, events, resp>>

WindowNext ==
    \/ WindowTick
    \/ Deliver
    \/ CreateSessionRequest
    \/ GenerateKeyRequest
    \/ CallIsKeyExpired
    \/ CallKeyTimeRemaining

SpecWindow == Init /\ [][WindowNext]_vars

-----------------------------------------------------------------------------
(* The key generator: one call of generate_quantum_key, bit by bit         *)

\* most bits one call is asked for
MaxBits == 3

\* the `bits` of a call: none, and 1 up to MaxBits
KeyGenBits == 0..MaxBits

\* how the generator was constructed: QISKIT_AVAILABLE false or no simulator,
\* the Sampler API, or the execute API
Simulators == {"none", "new_api", "old_api"}

\* ''.join(secrets.choice('01') for _ in range(bits))
FallbackKeys(bits) == [1..bits -> {Zero, One}]

\* str(int(...)) of the comparison with 0.5 written as text of its own
NewApiBit_unrounded(quasi_dist) ==
    IF 1 \in DOMAIN quasi_dist THEN <<One, 46, Zero>> ELSE <<Zero>>

\* str(int(result.quasi_dists[0].get(1, 0) > 0.5)); the quasi-distribution
\* of one shot gives the measured outcome the probability 1
NewApiBit(quasi_dist) ==
    IF (IF 1 \in DOMAIN quasi_dist THEN quasi_dist[1] ELSE 0) * 2 > 1
    THEN <<One>> ELSE <<Zero>>

\* the quasi-distributions and the counts of one shot of a one-qubit circuit
QuasiDists == { [o \in {b} |-> 1] : b \in {0, 1} }

Counts == { [o \in {<<c>>} |-> 1] : c \in {Zero, One} }

\* max(result, key=result.get)
OldApiBit(counts) ==
    CHOOSE k \in DOMAIN counts : \A j \in DOMAIN counts : counts[k] >= counts[j]

\* the call: where it stands, its argument, the generator's simulator, the
\* key so far, where each bit came from, and the key returned
KeyGenCall(pc, bits, simulator, key, sources, result) ==
    [ fn |-> "generate_quantum_key", pc |-> pc, bits |-> bits,
      simulator |-> simulator, key |-> key, sources |-> sources,
      result |-> result ]

KeyGenInit ==
    /\ now = 0
    /\ sessions = << >>
    /\ messages = << >>
    /\ events = << >>
    /\ resp = NoResponse
    /\ \E bits \in KeyGenBits, simulator \in Simulators :
            call = KeyGenCall("called", bits, simulator, <<>>, <<>>, None)

KeyGenReturn(source, key) ==
    call' = KeyGenCall("returned", call.bits, call.simulator, call.key,
                       Append(call.sources, source), key)

KeyGenBit(source, bit) ==
    call' = KeyGenCall("called", call.bits, call.simulator, call.key \o bit,
                       Append(call.sources, source), None)

\* lines 52-57: no simulator, the whole key from secrets
NoSimulatorFallback ==
    /\ call.pc = "called"
    /\ call.simulator = "none"
    /\ \E key \in FallbackKeys(call.bits) : KeyGenReturn("no_simulator", key)
    /\ UNCHANGED <<now, sessions, messages, events, resp>>

\* lines 76-81: one pass of the loop, the Sampler returns
MeasureBitNewApi ==
    /\ call.pc = "called"
    /\ call.simulator = "new_api"
    /\ Len(call.sources) < call.bits
    /\ \E q \in QuasiDists : KeyGenBit("measured", NewApiBit(q))
    /\ UNCHANGED <<now, sessions, messages, events, resp>>

\* lines 88-92: one pass of the loop, execute returns
MeasureBitOldApi ==
    /\ call.pc = "called"
    /\ call.simulator = "old_api"
    /\ Len(call.sources) < call.bits
    /\ \E c \in Counts : KeyGenBit("measured", OldApiBit(c))
    /\ UNCHANGED <<now, sessions, messages, events, resp>>

\* lines 82-85 and 93-96: the inner try raises, the bit comes from secrets
PerBitFallback ==
    /\ call.pc = "called"
    /\ call.simulator # "none"
    /\ Len(call.sources) < call.bits
    /\ \E c \in {Zero, One} : KeyGenBit("fallback", <<c>>)
    /\ UNCHANGED <<now, sessions, messages, events, resp>>

\* lines 110-115: the pass raises outside the inner try (building the
\* circuit), the key so far is dropped and the whole key comes from secrets
WholeCallFallback ==
    /\ call.pc = "called"
    /\ call.simulator # "none"
    /\ Len(call.sources) < call.bits
    /\ \E key \in FallbackKeys(call.bits) : KeyGenReturn("whole_call", key)
    /\ UNCHANGED <<now, sessions, messages, events, resp>>

\* line 108: the loop is over
ReturnKey ==
    /\ call.pc = "called"
    /\ call.simulator # "none"
    /\ Len(call.sources) = call.bits
    /\ KeyGenReturn("loop", call.key)
    /\ UNCHANGED <<now, sessions, messages, events, resp>>

KeyGenNext ==
    \/ NoSimulatorFallback
    \/ MeasureBitNewApi
    \/ MeasureBitOldApi
    \/ PerBitFallback
    \/ WholeCallFallback
    \/ ReturnKey

SpecKeyGen == KeyGenInit /\ [][KeyGenNext]_vars

-----------------------------------------------------------------------------
(* The cipher alone: encryption.py called directly on a message and a key  *)

\* longest message of a direct call
MaxLen == 2

\* 'A', '=', U+00E9, U+00FF, U+0100, U+20AC, a lone surrogate, U+1F600
CipherChars == {65, 61, 233, 255, 256, 8364, 55296, 128512}

CipherTexts == UNION { [1..n -> CipherChars] : n \in 0..MaxLen }

\* '', '1', '101', two keys of 8 bits, one of 16, '2' and 'a'
CipherKeys ==
    { <<>>,
      <<One>>,
      <<One, Zero, One>>,
      <<Zero, One, Zero, Zero, Zero, Zero, Zero, One>>,
      <<One, One, One, One, One, One, One, One>>,
      <<Zero, One, Zero, Zero, Zero, Zero, Zero, One,
        Zero, Zero, One, Zero, Zero, Zero, One, One>>,
      <<50>>,
      <<97>> }

\* longest ciphertext handed to xor_decrypt that xor_encrypt did not return
MaxCipherLen == 5

\* 'A', 'Q', '=', '!' and U+00E9: two characters of the base64 alphabet, the
\* pad, an ASCII character outside the alphabet and one beyond ASCII
CiphertextChars == {65, 81, 61, 33, 233}

Ciphertexts == UNION { [1..n -> CiphertextChars] : n \in 0..MaxCipherLen }

CipherInit ==
    /\ now = 0
    /\ sessions = << >>
    /\ messages = << >>
    /\ events = << >>
    /\ resp = NoResponse
    /\ \/ \E m \in CipherTexts, k \in CipherKeys :
                call = CipherCallRecord("input", m, k, None, None)
       \/ \E c \in Ciphertexts, k \in CipherKeys :
                call = CipherCallRecord("ciphertext", c, k, None, None)

CallXorEncrypt ==
    /\ call.fn = "input"
    /\ call' = CipherCallRecord("xor_encrypt", call.text, call.key,
                                xor_encrypt(call.text, call.key), None)
    /\ UNCHANGED <<now, sessions, messages, events, resp>>

\* the ciphertext xor_encrypt returned, decoded under the same key
CallXorDecrypt ==
    /\ call.fn = "xor_encrypt"
    /\ call' = CipherCallRecord("xor_decrypt", call.result, call.key,
                                xor_decrypt(call.result, call.key), call.text)
    /\ UNCHANGED <<now, sessions, messages, events, resp>>

CallOtpEncrypt ==
    /\ call.fn = "input"
    /\ call' = CipherCallRecord("one_time_pad_encrypt", call.text, call.key,
                                one_time_pad_encrypt(call.text, call.key), None)
    /\ UNCHANGED <<now, sessions, messages, events, resp>>

CallOtpDecrypt ==
    /\ call.fn = "one_time_pad_encrypt"
    /\ call' = CipherCallRecord("one_time_pad_decrypt", call.result, call.key,
                                one_time_pad_decrypt(call.result, call.key),
                                call.text)
    /\ UNCHANGED <<now, sessions, messages, events, resp>>

\* xor_decrypt called on a string as it stands
CallXorDecryptDirect ==
    /\ call.fn = "ciphertext"
    /\ call' = CipherCallRecord("xor_decrypt_direct", call.text, call.key,
                                xor_decrypt(call.text, call.key), None)
    /\ UNCHANGED <<now, sessions, messages, events, resp>>

CipherNext ==
    \/ CallXorEncrypt
    \/ CallXorDecrypt
    \/ CallXorDecryptDirect
    \/ CallOtpEncrypt
    \/ CallOtpDecrypt

SpecCipher == CipherInit /\ [][CipherNext]_vars

-----------------------------------------------------------------------------
(* ai_engine.py: one call of an operation of MonmadAI                      *)

\* a JSON value: its type and its members as (name, value) pairs, the
\* values as JSON text; the elements of an array have the name ""
JsonValue(type, members) == [ type |-> type, members |-> members ]

\* json.loads raises
JsonError == JsonValue("error", <<>>)

\* what self.client.models.generate_content(...) does: it raises, or it
\* returns a response with this text
ServiceRaises == [ raises |-> TRUE, text |-> "" ]

ServiceTexts == { "", "not json", "42", "[\"ok\"]", "{\"sentiment\": \"positive\"}" }

ServiceReplies ==
    {ServiceRaises} \cup { [ raises |-> FALSE, text |-> t ] : t \in ServiceTexts }

\* json.loads on the texts of ServiceTexts
json_loads(text) ==
    IF text = "42" THEN JsonValue("number", << <<"", "42">> >>)
    ELSE IF text = "[\"ok\"]" THEN JsonValue("array", << <<"", "\"ok\"">> >>)
    ELSE IF text = "{\"sentiment\": \"positive\"}"
        THEN JsonValue("object", << <<"sentiment", "\"positive\"">> >>)
    ELSE JsonError

\* the body every operation shares: the value of `if not self.client`, the
\* parsed reply, or the value of the last return statement
Advisory(client, reply, unconfigured, fallthrough) ==
    IF ~client THEN unconfigured
    ELSE IF reply.raises THEN fallthrough
    ELSE IF reply.text = "" THEN fallthrough
    ELSE IF json_loads(reply.text) = JsonError THEN fallthrough
    ELSE json_loads(reply.text)

\* line 45 and line 72
SentimentUnconfigured ==
    JsonValue("object",
        << <<"sentiment", "\"neutral\"">>, <<"confidence", "0.5">>,
           <<"emotion", "\"calm\"">> >>)

SentimentFallthrough ==
    JsonValue("object",
        << <<"sentiment", "\"neutral\"">>, <<"confidence", "0.5">>,
           <<"emotion", "\"calm\"">>, <<"intensity", "\"medium\"">>,
           <<"quantum_security_threat", "false">> >>)

analyze_message_sentiment(client, reply) ==
    Advisory(client, reply, SentimentUnconfigured, SentimentFallthrough)

\* line 78 and line 111
SmartReplyUnconfigured ==
    JsonValue("array",
        << <<"", "\"Hi there!\"">>, <<"", "\"Thanks for the message!\"">>,
           <<"", "\"Understood!\"">> >>)

SmartReplyFallthrough ==
    JsonValue("array",
        << <<"", "\"Got it!\"">>, <<"", "\"Sounds good!\"">>,
           <<"", "\"Thanks!\"">> >>)

generate_smart_reply(client, reply) ==
    Advisory(client, reply, SmartReplyUnconfigured, SmartReplyFallthrough)

\* line 117 and line 154
ThreatsUnconfigured ==
    JsonValue("object",
        << <<"threat_level", "\"low\"">>, <<"threats", "[]">>,
           <<"safe", "true">> >>)

ThreatsFallthrough ==
    JsonValue("object",
        << <<"threat_level", "\"low\"">>, <<"threats", "[]">>,
           <<"safe", "true">>, <<"confidence", "0.5">>,
           <<"recommendation", "\"message appears safe\"">> >>)

detect_security_threats(client, reply) ==
    Advisory(client, reply, ThreatsUnconfigured, ThreatsFallthrough)

\* how the call went: the client was never configured, the service raised,
\* it returned no text, text json.loads raises on, or text that parses
AdvisoryMode(client, reply) ==
    IF ~client THEN "unconfigured"
    ELSE IF reply.raises THEN "raises"
    ELSE IF reply.text = "" THEN "no_text"
    ELSE IF json_loads(reply.text) = JsonError THEN "unparsable"
    ELSE "parsed"

AdvisoryCall(fn, client, message, mode, result) ==
    [ fn |-> fn, client |-> client, message |-> message, mode |-> mode,
      result |-> result ]

\* monmad_ai = MonmadAI(), with or without a client, and the message of a call
AdvisoryInit ==
    /\ now = 0
    /\ sessions = << >>
    /\ messages = << >>
    /\ events = << >>
    /\ resp = NoResponse
    /\ \E client \in BOOLEAN, message \in CipherTexts :
            call = AdvisoryCall("advisory", client, message, "", JsonError)

CallAnalyzeMessageSentiment ==
    /\ call.fn = "advisory"
    /\ \E reply \in ServiceReplies :
            call' = AdvisoryCall("analyze_message_sentiment", call.client,
                                 call.message, AdvisoryMode(call.client, reply),
                                 analyze_message_sentiment(call.client, reply))
    /\ UNCHANGED <<now, sessions, messages, events, resp>>

CallGenerateSmartReply ==
    /\ call.fn = "advisory"
    /\ \E reply \in ServiceReplies :
            call' = AdvisoryCall("generate_smart_reply", call.client,
                                 call.message, AdvisoryMode(call.client, reply),
                                 generate_smart_reply(call.client, reply))
    /\ UNCHANGED <<now, sessions, messages, events, resp>>

CallDetectSecurityThreats ==
    /\ call.fn = "advisory"
    /\ \E reply \in ServiceReplies :
            call' = AdvisoryCall("detect_security_threats", call.client,
                                 call.message, AdvisoryMode(call.client, reply),
                                 detect_security_threats(call.client, reply))
    /\ UNCHANGED <<now, sessions, messages, events, resp>>

AdvisoryNext ==
    \/ CallAnalyzeMessageSentiment
    \/ CallGenerateSmartReply
    \/ CallDetectSecurityThreats

SpecAdvisory == AdvisoryInit /\ [][AdvisoryNext]_vars

-----------------------------------------------------------------------------
(* encryption.py: one call of simulate_hacker_attack                       *)

\* 'a' and '!', two of the 88 characters secrets.choice draws from
GarbageChars == {97, 33}

\* the strings one attempt may draw for a message of n characters
Garbage(n) == [1..n -> GarbageChars]

\* 'a', 'A' and U+00E9: in the alphabet of the garbage, in the label of an
\* attempt, in neither
AttackChars == {97, 65, 233}

AttackTexts == UNION { [1..n -> AttackChars] : n \in 0..MaxLen }

\* f"Attempt {attempt + 1}: {garbage}"
AttemptLine(attempt, garbage) ==
    <<65, 116, 116, 101, 109, 112, 116, 32, Zero + attempt + 1, 58, 32>>
        \o garbage

\* "[Error simulating attack]"
ErrorSimulatingAttack ==
    <<91, 69, 114, 114, 111, 114, 32, 115, 105, 109, 117, 108, 97, 116, 105,
      110, 103, 32, 97, 116, 116, 97, 99, 107, 93>>

AttackReport(original_message, encrypted_message, failed, status, length) ==
    [ fn |-> "simulate_hacker_attack",
      original_message |-> original_message,
      intercepted_ciphertext |-> encrypted_message,
      failed_decryptions |-> failed,
      status |-> status,
      original_length |-> length ]

\* the report for the three strings g the attempts drew; len(None) raises
simulate_hacker_attack(original_message, encrypted_message, g) ==
    IF original_message = None
    THEN AttackReport(original_message, encrypted_message,
                      <<ErrorSimulatingAttack>>, "ERROR", 0)
    ELSE AttackReport(original_message, encrypted_message,
                      [attempt \in 1..3 |-> AttemptLine(attempt - 1, g[attempt])],
                      "FAILED - Quantum encryption unbreakable without key",
                      Len(original_message))

AttackInit ==
    /\ now = 0
    /\ sessions = << >>
    /\ messages = << >>
    /\ events = << >>
    /\ resp = NoResponse
    /\ \E m \in AttackTexts \cup {None}, k \in {<<One>>, <<50>>} :
            call = CipherCallRecord("attack", m, k,
                        IF m = None THEN None ELSE xor_encrypt(m, k), None)

CallSimulateHackerAttack ==
    /\ call.fn = "attack"
    /\ \E g \in [1..3 -> Garbage(IF call.text = None THEN 0 ELSE Len(call.text))] :
            call' = simulate_hacker_attack(call.text, call.result, g)
    /\ UNCHANGED <<now, sessions, messages, events, resp>>

AttackNext ==
    \/ CallSimulateHackerAttack

SpecAttack == AttackInit /\ [][AttackNext]_vars

-----------------------------------------------------------------------------
(* Requests served concurrently: every handler of routes.py that commits   *)
(* runs in two steps, its queries (the rows become objects of the          *)
(* request's own db.session) and its commit (the changed columns are       *)
(* written); steps of different requests interleave                        *)

\* the threads of the server that serve requests
Workers == {"w1", "w2"}

SessionCodes == {"A", "B"}

\* requests that append a security event, over all sessions
MaxWrites == 3

\* a request between its queries and its commit: the session row and the
\* message rows as it loaded them, and what it computed from them
InFlight(op, code, row, rows, quantum_key, encrypted_message) ==
    [ op |-> op, code |-> code, row |-> row, rows |-> rows,
      quantum_key |-> quantum_key, encrypted_message |-> encrypted_message ]

NoRequest == InFlight("", "", NewSession, << >>, None, None)

RequestsCall(worker) == [ fn |-> "requests", worker |-> worker ]

ConcurrentInit ==
    /\ now = 0
    /\ sessions = << >>
    /\ messages = << >>
    /\ events = << >>
    /\ resp = NoResponse
    /\ call = RequestsCall([w \in Workers |-> NoRequest])

\* worker w takes the request / returns its response
Begin(w, r) == call' = RequestsCall([call.worker EXCEPT ![w] = r])

End(w) == call' = RequestsCall([call.worker EXCEPT ![w] = NoRequest])

\* the requests that append a security event: committed (their events)
\* and in flight
Writes ==
    Len(events)
        + Cardinality({ w \in Workers :
            call.worker[w].op \in { "generate_key", "send_message",
                                     "simulate_hacker_attack" } })

ConcurrentCreateSession ==
    /\ call.fn = "requests"
    /\ \E code \in SessionCodes : create_session(code)

\* api_generate_key, lines 98-107: the session row is loaded, the key drawn
QueryGenerateKey ==
    \E w \in Workers, code \in SessionCodes, key \in generate_quantum_key(16) :
        /\ call.worker[w] = NoRequest
        /\ Writes < MaxWrites
        /\ IF code \notin DOMAIN sessions
           THEN /\ resp' = NotFound("generate_key", code)
                /\ UNCHANGED call
           ELSE /\ Begin(w, InFlight("generate_key", code, sessions[code], << >>,
                                     key, None))
                /\ UNCHANGED resp
        /\ UNCHANGED <<now, sessions, messages, events>>

\* api_generate_key, lines 113-124: the three columns and the event
CommitGenerateKey ==
    \E w \in Workers :
        LET r == call.worker[w]
        IN  /\ r.op = "generate_key"
            /\ sessions' = [sessions EXCEPT
                    ![r.code].quantum_key = r.quantum_key,
                    ![r.code].key_generated_at = now,
                    ![r.code].key_refreshes = r.row.key_refreshes + 1]
            /\ events' = Append(events, NewEvent(r.code, "key_generation", <<16>>))
            /\ resp' = Response("generate_key", r.code, 200, "",
                                <<Entry(0, None, r.quantum_key)>>, {})
            /\ End(w)
            /\ UNCHANGED <<now, messages>>

\* api_send_message, lines 144-168: the session row is loaded and checked,
\* the message encrypted with the key of the loaded row
QuerySendMessage ==
    \E w \in Workers, code \in SessionCodes :
        /\ call.worker[w] = NoRequest
        /\ Writes < MaxWrites
        /\ IF code \notin DOMAIN sessions
           THEN /\ resp' = NotFound("send_message", code)
                /\ UNCHANGED call
           ELSE IF KeyMissing(sessions[code])
           THEN /\ resp' = Response("send_message", code, 400,
                                    "No quantum key generated", <<>>, {})
                /\ UNCHANGED call
           ELSE IF is_key_expired(sessions[code])
           THEN /\ resp' = Response("send_message", code, 400,
                                    "Quantum key expired", <<>>, {})
                /\ UNCHANGED call
           ELSE /\ Begin(w, InFlight("send_message", code, sessions[code], << >>,
                                     None,
                                     Encrypt("xor", Hi, sessions[code].quantum_key)))
                /\ UNCHANGED resp
        /\ UNCHANGED <<now, sessions, messages, events>>

\* api_send_message, lines 170-193: the Message row, the two counters as
\* the loaded row had them plus one, and the event
CommitSendMessage ==
    \E w \in Workers, sender \in Senders :
        LET r == call.worker[w]
        IN  /\ r.op = "send_message"
            /\ messages' = Append(messages,
                    NewMessage(r.code, sender, Hi, r.encrypted_message, FALSE, 30))
            /\ sessions' = [sessions EXCEPT
                    ![r.code].total_messages = r.row.total_messages + 1,
                    ![r.code].messages_count = r.row.messages_count + 1]
            /\ events' = Append(events,
                                NewEvent(r.code, "message_sent", <<sender, "xor">>))
            /\ resp' = Response("send_message", r.code, 200, "",
                    <<Entry(Len(messages) + 1, None, r.encrypted_message)>>,
                    {CipherCall("xor_encrypt", r.row)})
            /\ End(w)
            /\ UNCHANGED now

\* api_get_messages, lines 212-223: the session row and the live rows of
\* the session above last_message_id are loaded
QueryGetMessages ==
    \E w \in Workers, code \in SessionCodes, last_message_id \in 0..1 :
        /\ call.worker[w] = NoRequest
        /\ IF code \notin DOMAIN sessions
           THEN /\ resp' = NotFound("get_messages", code)
                /\ UNCHANGED call
           ELSE LET queried == { i \in LiveIds(code) :
                                   last_message_id > 0 => i > last_message_id }
                IN  /\ Begin(w, InFlight("get_messages", code, sessions[code],
                                         [i \in queried |-> messages[i]],
                                         None, None))
                    /\ UNCHANGED resp
        /\ UNCHANGED <<now, sessions, messages, events>>

\* the columns the loop of api_get_messages changed on a loaded row,
\* written to the row of the table
WriteChanged(row, loaded) ==
    LET after == ReadOrDestroy(loaded)
    IN  IF after.is_destroyed /\ ~loaded.is_destroyed
        THEN [ row EXCEPT !.is_destroyed = TRUE,
                          !.original_message = after.original_message,
                          !.encrypted_message = after.encrypted_message ]
        ELSE IF after.read_at # loaded.read_at
        THEN [ row EXCEPT !.read_at = after.read_at ]
        ELSE row

\* api_get_messages, lines 226-267: the loop over the loaded rows, the
\* commit and the response
CommitGetMessages ==
    \E w \in Workers :
        LET r == call.worker[w]
            after == [i \in DOMAIN r.rows |-> ReadOrDestroy(r.rows[i])]
            listed == Ascending({ i \in DOMAIN r.rows : ~after[i].is_destroyed })
        IN  /\ r.op = "get_messages"
            /\ messages' = [i \in 1..Len(messages) |->
                                IF i \in DOMAIN r.rows
                                THEN WriteChanged(messages[i], r.rows[i])
                                ELSE messages[i]]
            /\ resp' = Response("get_messages", r.code, 200, "",
                    [k \in 1..Len(listed) |->
                        Entry(listed[k], Decrypt(r.row, after[listed[k]]),
                              after[listed[k]].encrypted_message)],
                    IF Len(listed) = 0 THEN {} ELSE DecryptCalls(r.row))
            /\ End(w)
            /\ UNCHANGED <<now, sessions, events>>

\* api_simulate_hacker_attack, lines 277-303: the session row and its 5 most
\* recent live rows are loaded
QuerySimulateHackerAttack ==
    \E w \in Workers, code \in SessionCodes :
        /\ call.worker[w] = NoRequest
        /\ Writes < MaxWrites
        /\ IF code \notin DOMAIN sessions
           THEN /\ resp' = NotFound("simulate_hacker_attack", code)
                /\ UNCHANGED call
           ELSE LET attacked == Limit(Reverse(Ascending(LiveIds(code))), 5)
                IN  IF Len(attacked) = 0
                    THEN /\ resp' = Response("simulate_hacker_attack", code, 400,
                                             "No messages to attack", <<>>, {})
                         /\ UNCHANGED call
                    ELSE /\ Begin(w, InFlight("simulate_hacker_attack", code,
                                sessions[code],
                                [i \in { attacked[k] : k \in 1..Len(attacked) } |->
                                    messages[i]],
                                None, None))
                         /\ UNCHANGED resp
        /\ UNCHANGED <<now, sessions, messages, events>>

\* api_simulate_hacker_attack, lines 305-319: the event and the counter as
\* the loaded row had it plus one
CommitSimulateHackerAttack ==
    \E w \in Workers :
        LET r == call.worker[w]
            attacked == Reverse(Ascending(DOMAIN r.rows))
        IN  /\ r.op = "simulate_hacker_attack"
            /\ events' = Append(events, NewEvent(r.code, "hacker_simulation", << >>))
            /\ sessions' = [sessions EXCEPT
                    ![r.code].security_events_count =
                        r.row.security_events_count + 1]
            /\ resp' = Response("simulate_hacker_attack", r.code, 200, "",
                    [k \in 1..Len(attacked) |->
                        Entry(attacked[k], None,
                              r.rows[attacked[k]].encrypted_message)],
                    {})
            /\ End(w)
            /\ UNCHANGED <<now, messages>>

ConcurrentNext ==
    \/ ConcurrentCreateSession
    \/ QueryGenerateKey
    \/ CommitGenerateKey
    \/ QuerySendMessage
    \/ CommitSendMessage
    \/ QueryGetMessages
    \/ CommitGetMessages
    \/ QuerySimulateHackerAttack
    \/ CommitSimulateHackerAttack

SpecConcurrent == ConcurrentInit /\ [][ConcurrentNext]_vars

-----------------------------------------------------------------------------
(* Requests the handlers reject: session codes no session has, and          *)
(* encryption methods api_send_message does not know                       *)

\* the codes requests name: "A" as in Codes, and "Z", which no session gets
RequestCodes == {"A", "Z"}

\* the encryption_method of a request: the two the handler knows, an
\* unknown one, a known one in upper case, and the empty string
RequestMethods == {"xor", "otp", "aes", "XOR", ""}

\* readings of the clock: inside and past the validity window of a key
RejectPoints == {0, 301}

RejectTick ==
    /\ resp = NoResponse
    /\ \E t \in RejectPoints : t > now /\ now' = t
    /\ UNCHANGED <<sessions, messages, events, resp, call>>

RejectGenerateKeyRequest ==
    /\ Idle
    /\ \E code \in RequestCodes, key \in KeyPool :
            KeysLeft(code) /\ api_generate_key(code, 16, key)

\* a send the handler rejects is sent also when the table is at its bound
RejectSendMessageRequest ==
    /\ Idle
    /\ \E code \in RequestCodes, sender \in Senders, method \in RequestMethods :
            /\ api_send_message(code, sender, Hi, method, FALSE, 30)
            /\ Len(messages') <= MaxMsgs

RejectGetMessagesRequest ==
    Idle /\ \E code \in RequestCodes : api_get_messages(code, 0)

RejectSimulateHackerAttackRequest ==
    /\ Idle
    /\ \E code \in RequestCodes :
            AttacksLeft(code) /\ api_simulate_hacker_attack(code)

RejectExportChatRequest ==
    Idle /\ \E code \in RequestCodes, f \in ExportFormats : api_export_chat(code, f)

RejectAiSmartRepliesRequest ==
    Idle /\ \E code \in RequestCodes : api_ai_smart_replies(code)

RejectAiConversationInsightsRequest ==
    Idle /\ \E code \in RequestCodes : api_ai_conversation_insights(code)

RejectNext ==
    \/ RejectTick
    \/ Deliver
    \/ CreateSessionRequest
    \/ RejectGenerateKeyRequest
    \/ RejectSendMessageRequest
    \/ RejectGetMessagesRequest
    \/ RejectSimulateHackerAttackRequest
    \/ RejectExportChatRequest
    \/ RejectAiSmartRepliesRequest
    \/ RejectAiConversationInsightsRequest

SpecReject == Init /\ [][RejectNext]_vars

-----------------------------------------------------------------------------
(* Key refreshes: a session whose key is generated more than once, with    *)
(* every `bits` a request may carry                                        *)

\* key generations of the session
MaxRefreshes == 2

\* the `bits` of a request: negative, none, one byte, the default
RefreshBits == {-1, 0, 8, 16}

RefreshGenerateKeyRequest ==
    /\ Idle
    /\ \E code \in Codes, bits \in RefreshBits, key \in KeyPool :
            /\ code \in DOMAIN sessions =>
                    sessions[code].key_refreshes < MaxRefreshes
            /\ api_generate_key(code, bits, key)

RefreshSendMessageRequest ==
    /\ Idle
    /\ Len(messages) < MaxMsgs
    /\ \E code \in Codes, sender \in Senders :
            api_send_message(code, sender, Hi, "xor", FALSE, 30)

RefreshNext ==
    \/ Tick
    \/ Deliver
    \/ CreateSessionRequest
    \/ RefreshGenerateKeyRequest
    \/ RefreshSendMessageRequest
    \/ GetMessagesRequest

SpecRefresh == Init /\ [][RefreshNext]_vars

-----------------------------------------------------------------------------
(* Properties                                                              *)

\* this step serves a request of the named operation
Served(op) == resp = NoResponse /\ resp'.op = op

\* the session's key is past its validity window
KeyPastWindow(code) ==
    /\ code \in DOMAIN sessions
    /\ sessions[code].key_generated_at # NoTime
    /\ now > sessions[code].key_generated_at + KeyWindow

\* C1: a send_message request on a session whose key is expired is rejected,
\* creates no Message, appends no SecurityEvent, leaves the session's counters
\* as they were and does not call the cipher.
C1_ExpiredSendRejected ==
    [][ (Served("send_message") /\ KeyPastWindow(resp'.code)) =>
            /\ resp'.status # 200
            /\ resp'.error # ""
            /\ messages' = messages
            /\ events' = events
            /\ sessions' = sessions
            /\ resp'.cipher = {} ]_vars

\* a send on a session with a non-empty key past its window was rejected
C1_Witness ==
    /\ resp.op = "send_message"
    /\ resp.error = "Quantum key expired"
    /\ KeyPastWindow(resp.code)
    /\ ~KeyMissing(sessions[resp.code])

\* C2: no request applies the cipher with a session key older than the
\* validity window.
C2_NoCipherPastWindow == \A c \in resp.cipher : c.key_age <= KeyWindow

\* C3: the get_messages request that sets read_at of a self-destruct message
\* with timer 0 also marks it destroyed.
C3_ReadDestroysTimerZero ==
    [][ \A i \in 1..Len(messages) :
            ( /\ Served("get_messages")
              /\ messages[i].is_self_destruct
              /\ messages[i].self_destruct_timer = 0
              /\ messages[i].read_at = NoTime
              /\ messages'[i].read_at # NoTime ) =>
                messages'[i].is_destroyed ]_vars

\* C4: a destroyed self-destruct message with timer 0 has been read (read_at
\* is set).
C4_TimerZeroDestroyedAfterRead ==
    \A i \in 1..Len(messages) :
        ( /\ messages[i].is_self_destruct
          /\ messages[i].self_destruct_timer = 0
          /\ messages[i].is_destroyed ) =>
            messages[i].read_at # NoTime

\* the destruction condition of a message that is not yet marked destroyed
DestructionDue(m) ==
    /\ m.is_self_destruct
    /\ ~m.is_destroyed
    /\ \/ now > m.created_at + m.self_destruct_timer
       \/ m.self_destruct_timer = 0 /\ m.read_at # NoTime

ReadOps ==
    { "chat", "get_messages", "export_chat", "simulate_hacker_attack",
      "ai_smart_replies", "ai_conversation_insights", "analytics" }

\* C5: no operation that reads a session's messages returns or uses the
\* plaintext or the ciphertext of a self-destruct message whose destruction
\* condition holds when the request is served.
C5_NoReadPastDestruction ==
    [][ (resp = NoResponse /\ resp'.op \in ReadOps) =>
            \A k \in 1..Len(resp'.body) :
                DestructionDue(messages[resp'.body[k].id]) =>
                    /\ resp'.body[k].message \in {None, DestroyedPlain}
                    /\ resp'.body[k].encrypted_message
                            \in {None, DestroyedCipher} ]_vars

\* C6: a destroyed message holds the placeholder markers, and no step makes
\* a destroyed message live again.
C6_DestructionIrreversible ==
    [][ \A i \in 1..Len(messages') :
            /\ messages'[i].is_destroyed =>
                    /\ messages'[i].original_message = DestroyedPlain
                    /\ messages'[i].encrypted_message = DestroyedCipher
            /\ (i <= Len(messages) /\ messages[i].is_destroyed) =>
                    messages'[i].is_destroyed ]_vars

\* a message that was sent with a text of its own has been destroyed
C6_Witness ==
    \E i \in 1..Len(messages) :
        /\ messages[i].is_destroyed
        /\ messages[i].original_message = DestroyedPlain
        /\ \E j \in 1..Len(events) :
                /\ events[j].event_type = "message_sent"
                /\ events[j].session_id = messages[i].session_id

\* the encryption_method of the request that sent message i: the i-th
\* 'message_sent' event records it
SentEvents == SelectSeq(events, LAMBDA e : e.event_type = "message_sent")

MethodOf(i) == SentEvents[i].description[2]

DecryptFn(method) ==
    IF method = "xor" THEN "xor_decrypt" ELSE "one_time_pad_decrypt"

\* the session has had one key only: no key was generated after a send
OneKey(code) == sessions[code].key_refreshes = 1

\* C7: get_messages decodes every message with the scheme send_message
\* encoded it with, so that under the same key the text it returns is the
\* plaintext that was sent, for 'xor' and for 'otp'.
C7_DecodeSchemeIsEncodeScheme ==
    [][ Served("get_messages") =>
            \A k \in 1..Len(resp'.body) :
                LET e == resp'.body[k]
                IN  /\ \E c \in resp'.cipher : c.fn = DecryptFn(MethodOf(e.id))
                    /\ OneKey(resp'.code) =>
                            e.message = messages[e.id].original_message ]_vars

\* the entries of a get_messages response for messages sent with 'xor' under
\* the session's only key, a key of 16 bits
XorEntries16 ==
    { k \in 1..Len(resp'.body) :
        /\ Len(sessions[resp'.code].quantum_key) = 16
        /\ OneKey(resp'.code)
        /\ MethodOf(resp'.body[k].id) = "xor" }

\* C8 as stated: every message sent with 'xor' under a 16-bit key and then
\* fetched is returned with its plaintext, and its stored ciphertext differs
\* from the plaintext.
C8_XorFetchAnyMessage ==
    [][ Served("get_messages") =>
            \A k \in XorEntries16 :
                LET e == resp'.body[k]
                    M == messages[e.id].original_message
                IN  /\ e.message = M
                    /\ messages'[e.id].encrypted_message # M ]_vars

\* C8, amended: the same for every non-empty message.
C8_XorFetchNonEmptyMessage ==
    [][ Served("get_messages") =>
            \A k \in XorEntries16 :
                LET e == resp'.body[k]
                    M == messages[e.id].original_message
                IN  M # Empty =>
                        /\ e.message = M
                        /\ messages'[e.id].encrypted_message # M ]_vars

\* "HI", sent with 'xor' under a 16-bit key, has been fetched
C8_Witness ==
    /\ resp.op = "get_messages"
    /\ \E k \in 1..Len(resp.body) :
            /\ messages[resp.body[k].id].original_message = Hi
            /\ MethodOf(resp.body[k].id) = "xor"
            /\ resp.body[k].message = Hi
            /\ Len(sessions[resp.code].quantum_key) = 16
            /\ OneKey(resp.code)

\* C9: for a binary key whose length is a multiple of 8, decoding what
\* xor_encrypt returned gives the message back.
C9_XorRoundTrip ==
    ( /\ call.fn = "xor_decrypt"
      /\ IsBinary(call.key)
      /\ Len(call.key) % 8 = 0 ) =>
        call.result = call.origin

\* a message of two characters, one of them beyond ASCII, went through
\* xor_encrypt and xor_decrypt under a 16-bit key
C9_Witness ==
    /\ call.fn = "xor_decrypt"
    /\ Len(call.key) = 16
    /\ Len(call.origin) = 2
    /\ \E i \in 1..2 : call.origin[i] > 127 /\ ~IsSurrogate(call.origin[i])
    /\ call.text # call.origin
    /\ call.result = call.origin

\* C10: for every key and every message, decoding what one_time_pad_encrypt
\* returned gives the message back.
C10_OtpRoundTrip ==
    call.fn = "one_time_pad_decrypt" => call.result = call.origin

\* a string base64 accepts as it stands: groups of four characters of the
\* alphabet, the last group ending in at most two pads
ValidBase64(s) ==
    /\ Len(s) % 4 = 0
    /\ \A i \in 1..Len(s) :
            \/ B64Val(s[i]) < 64
            \/ /\ s[i] = B64Pad
               /\ i >= Len(s) - 1
               /\ s[Len(s)] = B64Pad

\* C11: xor_decrypt returns a ciphertext that is not valid base64 unchanged
\* (no exception escapes: the call returns a string).
C11_InvalidBase64Unchanged ==
    ( /\ call.fn = "xor_decrypt_direct"
      /\ ~ValidBase64(call.text) ) =>
        call.result = call.text

\* this step is a read path that queries message i: the chat page of its
\* session, or a get_messages whose last_message_id is below i
ReadPathOver(i) ==
    /\ resp = NoResponse
    /\ \/ chat(messages[i].session_id)
       \/ \E last \in 0..MaxMsgs :
            /\ last > 0 => i > last
            /\ api_get_messages(messages[i].session_id, last)

\* C12: a live self-destruct message with timer T > 0 is destroyed by no
\* step taken while less than T seconds have passed since its creation, and
\* is destroyed by every chat page or get_messages that queries it when more
\* than T seconds have passed.
C12_TimerDestruction ==
    [][ \A i \in 1..Len(messages) :
            LET m == messages[i]
                elapsed == now - m.created_at
            IN  ( /\ m.is_self_destruct
                  /\ ~m.is_destroyed
                  /\ m.self_destruct_timer > 0 ) =>
                    /\ elapsed < m.self_destruct_timer =>
                            ~messages'[i].is_destroyed
                    /\ (elapsed > m.self_destruct_timer /\ ReadPathOver(i)) =>
                            messages'[i].is_destroyed ]_vars

\* a message with timer 30 was read 29 s after its creation and is destroyed
\* at 31 s
C12_Witness ==
    \E i \in 1..Len(messages) :
        /\ messages[i].self_destruct_timer = 30
        /\ messages[i].is_self_destruct
        /\ messages[i].read_at = messages[i].created_at + 29
        /\ messages[i].is_destroyed
        /\ now = messages[i].created_at + 31

\* C13: is_key_expired is true for a session no key was generated for; for
\* a session with a key it is false up to and including generation time
\* plus 5 minutes and true at every later time.
C13_KeyExpiryBoundary ==
    call.fn = "is_key_expired" =>
        IF call.key_generated_at = NoTime
        THEN call.result = TRUE
        ELSE call.result = (call.at > call.key_generated_at + 5 * 60)

\* is_key_expired returned false exactly 5 minutes after the key generation
C13_Witness ==
    /\ call.fn = "is_key_expired"
    /\ call.key_generated_at # NoTime
    /\ call.at = call.key_generated_at + 5 * 60
    /\ call.result = FALSE

\* C14: key_time_remaining is never negative, is 0 for a session without a
\* key and at every time at or after generation time plus 5 minutes, and for
\* the same key no reading is above an earlier one.
C14_KeyTimeRemainingMonotone ==
    call.fn = "key_time_remaining" =>
        /\ call.result >= 0
        /\ call.key_generated_at = NoTime => call.result = 0
        /\ ( /\ call.key_generated_at # NoTime
              /\ call.at >= call.key_generated_at + 5 * 60 ) => call.result = 0
        /\ call.prev # NoReading => call.result <= call.prev

\* two readings for one key: a positive one, then 0 after the window
C14_Witness ==
    /\ call.fn = "key_time_remaining"
    /\ call.prev > 0
    /\ call.result = 0
    /\ call.at > call.key_generated_at + 5 * 60

\* C15: for bits >= 1 a call of generate_quantum_key that has returned, on
\* whichever path, returned a string of exactly `bits` characters, each '0'
\* or '1'; the call never ends otherwise than by returning.
C15_KeyWellFormed ==
    ( /\ call.fn = "generate_quantum_key"
      /\ call.bits >= 1 ) =>
        /\ call.pc \in {"called", "returned"}
        /\ call.pc = "returned" =>
                /\ Len(call.result) = call.bits
                /\ IsBinary(call.result)

\* a key of at least two bits was returned by the loop, one bit measured and
\* one from the per-bit fallback
C15_Witness ==
    /\ call.fn = "generate_quantum_key"
    /\ call.pc = "returned"
    /\ call.bits >= 2
    /\ call.sources[Len(call.sources)] = "loop"
    /\ \E i, j \in 1..call.bits :
            call.sources[i] = "measured" /\ call.sources[j] = "fallback"
    /\ Len(call.result) = call.bits

\* the one default of each operation: the value with every documented field
FixedDefault(fn) ==
    IF fn = "analyze_message_sentiment" THEN SentimentFallthrough
    ELSE IF fn = "generate_smart_reply" THEN SmartReplyFallthrough
    ELSE ThreatsFallthrough

\* C16: an advisory operation whose client was never configured, whose
\* service call raised or whose reply does not parse returns the one fixed
\* default of that operation, the same in the three failure modes.
C16_OneDefaultPerOperation ==
    ( /\ call.fn \in { "analyze_message_sentiment", "generate_smart_reply",
                       "detect_security_threats" }
      /\ call.mode \in {"unconfigured", "raises", "unparsable"} ) =>
        call.result = FixedDefault(call.fn)

\* `sub in text` of two strings
Contains(text, sub) ==
    \E i \in 0..(Len(text) - Len(sub)) :
        \A j \in 1..Len(sub) : text[i + j] = sub[j]

\* C17: no entry of failed_decryptions in a report of simulate_hacker_attack
\* contains the plaintext, whatever the attempts drew.
C17_ReportHidesPlaintext ==
    ( /\ call.fn = "simulate_hacker_attack"
      /\ call.original_message # None ) =>
        \A i \in 1..Len(call.failed_decryptions) :
            ~Contains(call.failed_decryptions[i], call.original_message)

\* what the tables hold for a session: its row, its messages and its events
RowsOf(code, ss, ms, es) ==
    << ss[code],
       { <<i, ms[i]>> : i \in { j \in 1..Len(ms) : ms[j].session_id = code } },
       { <<i, es[i]>> : i \in { j \in 1..Len(es) : es[j].session_id = code } } >>

\* the sessions of the requests that commit in this step
CommittingCodes ==
    { call.worker[w].code :
        w \in { v \in Workers : call.worker[v] # NoRequest
                                   /\ call'.worker[v] = NoRequest } }

\* C18: a step of a request on one session leaves the row, the messages and
\* the events of every other session as they were, in every interleaving of
\* the requests' queries and commits, and a get_messages response carries
\* messages of its own session only.
C18_SessionsIsolated ==
    [][ /\ \A b \in DOMAIN sessions :
                b \notin CommittingCodes =>
                    RowsOf(b, sessions', messages', events')
                        = RowsOf(b, sessions, messages, events)
        /\ resp'.op = "get_messages" =>
                \A k \in 1..Len(resp'.body) :
                    messages'[resp'.body[k].id].session_id = resp'.code ]_vars

\* get_messages on B, a session with a key of its own, returned no message
\* while A holds a message, and B's counters are at 0
C18_Witness ==
    /\ resp.op = "get_messages"
    /\ resp.code = "B"
    /\ resp.status = 200
    /\ Len(resp.body) = 0
    /\ sessions["B"].key_refreshes = 1
    /\ sessions["B"].total_messages = 0
    /\ \E i \in 1..Len(messages) : messages[i].session_id = "A"

\* the Message rows of a session
MessagesOf(code) ==
    Cardinality({ i \in 1..Len(messages) : messages[i].session_id = code })

\* C19: once no send_message request is in flight, total_messages and
\* messages_count of every session equal the number of its Message rows.
C19_CountersExact ==
    ( /\ call.fn = "requests"
      /\ \A w \in Workers : call.worker[w].op # "send_message" ) =>
        \A code \in DOMAIN sessions :
            /\ sessions[code].total_messages = MessagesOf(code)
            /\ sessions[code].messages_count = MessagesOf(code)

\* the event type each operation logs
EventTypeOf(op) ==
    IF op = "generate_key" THEN "key_generation"
    ELSE IF op = "send_message" THEN "message_sent"
    ELSE "hacker_simulation"

\* C20: a successful generate_key, send_message or simulate_hacker_attack
\* appends exactly one SecurityEvent of its type for its session; every
\* other step leaves the events as they were, and no step changes or removes
\* an event that exists.
C20_EventsAppendOnly ==
    [][ /\ Len(events') >= Len(events)
        /\ SubSeq(events', 1, Len(events)) = events
        /\ IF /\ resp = NoResponse
              /\ resp'.op \in {"generate_key", "send_message",
                                "simulate_hacker_attack"}
              /\ resp'.status = 200
           THEN /\ Len(events') = Len(events) + 1
                /\ events'[Len(events')].session_id = resp'.code
                /\ events'[Len(events')].event_type = EventTypeOf(resp'.op)
           ELSE events' = events ]_vars

\* a session has logged a key generation, a message and an attack
\* simulation, in this order
C20_Witness ==
    /\ Len(events) = 3
    /\ events[1].event_type = "key_generation"
    /\ events[2].event_type = "message_sent"
    /\ events[3].event_type = "hacker_simulation"
    /\ \A j \in 1..3 : events[j].session_id = events[1].session_id
    /\ resp.op = "simulate_hacker_attack"
    /\ resp.status = 200

\* the API operations that look a session up by the code of the request
ApiOps ==
    { "generate_key", "send_message", "get_messages", "simulate_hacker_attack",
      "export_chat", "ai_smart_replies", "ai_conversation_insights" }

\* the errors api_send_message reports for a session that exists
KeyRejections == { "No quantum key generated", "Quantum key expired" }

\* this step serves a send_message request with this code and method
SendServed(code, method) ==
    /\ resp = NoResponse
    /\ \E sender \in Senders :
            api_send_message(code, sender, Hi, method, FALSE, 30)

C22_AnyGetMessagesDestroys ==
    [][ \A i \in 1..Len(messages) :
            LET m == messages[i]
            IN  ( /\ Served("get_messages")
                  /\ resp'.status = 200
                  /\ resp'.code = m.session_id
                  /\ m.is_self_destruct
                  /\ ~m.is_destroyed
                  /\ now > m.created_at + m.self_destruct_timer ) =>
                    messages'[i].is_destroyed ]_vars

\* the 'key_generation' events of a session in an event table
KeyGenerations(es, code) ==
    Cardinality({ j \in 1..Len(es) :
        es[j].session_id = code /\ es[j].event_type = "key_generation" })

KeyColumns(s) == <<s.quantum_key, s.key_generated_at, s.key_refreshes>>

\* C23: a successful generate_key stores the key it returns, sets
\* key_generated_at to the current time and adds exactly 1 to key_refreshes;
\* no other step changes the three columns, so that with requests served
\* one at a time key_refreshes is the number of successful key generations
\* and the stored key is the one generated last.
C23_KeyReplacedAndCounted ==
    [][ /\ \A code \in DOMAIN sessions :
                IF /\ Served("generate_key")
                   /\ resp'.status = 200
                   /\ resp'.code = code
                THEN /\ sessions'[code].quantum_key
                            = resp'.body[1].encrypted_message
                     /\ sessions'[code].key_generated_at = now
                     /\ sessions'[code].key_refreshes
                            = sessions[code].key_refreshes + 1
                ELSE KeyColumns(sessions'[code]) = KeyColumns(sessions[code])
        /\ \A code \in DOMAIN sessions' :
                sessions'[code].key_refreshes = KeyGenerations(events', code) ]_vars

\* the session's key of 16 bits was replaced, after its window, by one of
\* 8 bits: the second generation of the session
C23_Witness ==
    /\ resp.op = "generate_key"
    /\ resp.status = 200
    /\ sessions[resp.code].key_refreshes = 2
    /\ Len(sessions[resp.code].quantum_key) = 8
    /\ sessions[resp.code].key_generated_at = 301
    /\ KeyGenerations(events, resp.code) = 2
    /\ events[1].description = <<16>>

\* C24: get_messages returns every message it lists with the plaintext that
\* was sent, also when generate_key replaced the session key between the
\* send and the fetch.
C24_ReadableAcrossRefresh ==
    [][ Served("get_messages") =>
            \A k \in 1..Len(resp'.body) :
                resp'.body[k].message
                    = messages[resp'.body[k].id].original_message ]_vars

\* the SecurityEvent rows of a session
EventsOf(code) ==
    Cardinality({ j \in 1..Len(events) : events[j].session_id = code })

\* C25: security_events_count of every session equals the number of its
\* SecurityEvent rows.
C25_EventCounterMatchesLog ==
    \A code \in DOMAIN sessions :
        sessions[code].security_events_count = EventsOf(code)

\* C26: a generate_key request that returns success, whatever its `bits`,
\* leaves a non-empty binary string as the session's key, and a send_message
\* with a valid method served right after it (at the same reading of the
\* clock) is not rejected for a missing or an expired key.
C26_SuccessYieldsUsableKey ==
    [][ /\ (Served("generate_key") /\ resp'.status = 200) =>
                /\ sessions'[resp'.code].quantum_key # None
                /\ Len(sessions'[resp'.code].quantum_key) > 0
                /\ IsBinary(sessions'[resp'.code].quantum_key)
        /\ \A code \in DOMAIN sessions :
                ( /\ sessions[code].key_generated_at = now
                  /\ \E sender \in Senders, method \in {"xor", "otp"} :
                        /\ resp = NoResponse
                        /\ api_send_message(code, sender, Hi, method, FALSE, 30) ) =>
                    resp'.error \notin KeyRejections ]_vars

=============================================================================
